---- MODULE Spec2Model ----
(***************************************************************************)
(* A model of mathjax3-ts/input/tex/ParseUtil.ts: the mixed text/math      *)
(* scanner internalMath (with internalText), the macro argument            *)
(* substitution substituteArgs/addArgs, and the dimension conversion       *)
(* matchDimen/dimen2em.                                                    *)
(*                                                                         *)
(* A JavaScript string is a sequence of one-character strings.  Cursors    *)
(* (i, k) are JavaScript indices, counted from 0: charAt(s, j) is s[j+1].  *)
(***************************************************************************)
EXTENDS Integers, Sequences, FiniteSets, TLC

VARIABLES
  pc,        \* position of the call in progress
  fn,        \* the function called
  arg,       \* the arguments of the call, as given
  text,      \* internalMath: the text being scanned (edited in place, line 277)
  i,         \* internalMath: cursor
  k,         \* internalMath: start of the pending segment
  match,     \* internalMath: "" (plain), "$", ")" or "}" (the awaited closer)
  braces,    \* internalMath: brace depth inside an island
  mml,       \* internalMath: nodes pushed so far
  level,     \* internalMath: the level argument, "null" until it is read
  eqnenv,    \* checkEqnEnv: parser.stack.global.eqnenv of each parser
  eqnCalls,  \* checkEqnEnv: the number of calls made so far on each parser
  result     \* what the call returned or threw

vars ==
  <<pc, fn, arg, text, i, k, match, braces, mml, level, eqnenv, eqnCalls, result>>

-----------------------------------------------------------------------------
(* Bounds of the model *)

\* Inputs of internalMath: at most MaxPieces pieces of Piece, and an Opener
\* followed by at most MaxCore pieces of Core.
MaxPieces == 4
MaxCore == 5
\* Inputs of substituteArgs: bodies of at most MaxBody characters of BodyChar
\* with at most MaxArgs arguments of ArgStr; and strings of MAXBUFFER - Slack
\* to MAXBUFFER + 1 characters in the place of a body or of the first argument.
MaxBody == 4
MaxArgs == 2
Slack == 3
\* Inputs of addArgs: a left side of at most MaxLeft characters of SideChar and
\* a right side of at most MaxRight.
MaxLeft == 4
MaxRight == 2
\* Inputs of matchDimen and dimen2em are made of at most MaxDimPieces pieces
\* of DimPiece.
MaxDimPieces == 4
\* The inputs of internalMath under SpecLive: at most MaxLivePieces pieces of
\* Piece.
MaxLivePieces == 3
\* checkEqnEnv is called on MaxParsers parsers, at most MaxCalls times on each.
MaxParsers == 3
MaxCalls == 3

-----------------------------------------------------------------------------
(* Strings *)

Letters == {"a", "b", "e", "f", "q", "r", "X", "Y"}
Digits == {"0", "1", "2", "3", "4", "5", "6", "7", "8", "9"}
NBSP == "nbsp"
\* the class \s of a JavaScript regular expression (it holds U+00A0)
Whitespace == {" ", NBSP}

IsLetter(c) == c \in Letters
IsSpace(c) == c \in Whitespace

\* String.prototype.charAt: the empty string past the end
charAt(s, j) == IF j >= 0 /\ j < Len(s) THEN s[j + 1] ELSE ""
\* String.prototype.slice(a, b) for 0 <= a
slice(s, a, b) == SubSeq(s, a + 1, IF b > Len(s) THEN Len(s) ELSE b)
\* String.prototype.substr(a)
substr(s, a) == SubSeq(s, a + 1, Len(s))

\* the number of whitespace characters s has from index j on (\s* at j)
RECURSIVE SpaceRun(_, _)
SpaceRun(s, j) == IF IsSpace(charAt(s, j)) THEN 1 + SpaceRun(s, j + 1) ELSE 0

\* s holds the characters of w from index j on
HasAt(s, j, w) == \A n \in 1..Len(w) : charAt(s, j + n - 1) = w[n]

-----------------------------------------------------------------------------
(* internalMath *)

\* the length of the match of /^(eq)?ref\s*\{/ on s, or -1 when there is none
RefMatchLen(s) ==
  LET eq == IF HasAt(s, 0, <<"e", "q">>) /\ HasAt(s, 2, <<"r", "e", "f">>)
            THEN 2 ELSE 0
      ws == SpaceRun(s, eq + 3)
  IN  IF HasAt(s, eq, <<"r", "e", "f">>) /\ charAt(s, eq + 3 + ws) = "{"
      THEN eq + 3 + ws + 1 ELSE -1

\* c.match(/[${}\\]/) for a c of at most one character
IsTrigger(c) == c \in {"$", "{", "}", "\\"}

\* text.match(/\\?[${}\\]|\\\(|\\(eq)?ref\s*\{/): the second and the third
\* alternative start with a backslash, which the first one matches already
HasTrigger(s) ==
  \E j \in 0..(Len(s) - 1) :
    \/ IsTrigger(charAt(s, j))
    \/ charAt(s, j) = "\\" /\ IsTrigger(charAt(s, j + 1))
    \/ charAt(s, j) = "\\" /\ charAt(s, j + 1) = "("
    \/ charAt(s, j) = "\\" /\ RefMatchLen(substr(s, j + 1)) >= 0

\* A node of the result.  kind is "mtext" (a Text segment), "TeXAtom" (a
\* Notation segment: str is the substring handed to the TexParser), "mrow" or
\* "mstyle" (kids are the wrapped nodes, level the scriptlevel).
Node(kind, str, kids, lvl) ==
  [kind |-> kind, str |-> str, kids |-> kids, level |-> lvl]

\* text.replace(/^\s+/, NBSP)
ReplaceLeading(s) ==
  LET n == SpaceRun(s, 0)
  IN  IF n > 0 THEN <<NBSP>> \o substr(s, n) ELSE s

\* the start of the whitespace run that ends s
RECURSIVE TrailStart(_, _)
TrailStart(s, j) ==
  IF j > 0 /\ IsSpace(charAt(s, j - 1)) THEN TrailStart(s, j - 1) ELSE j

\* text.replace(/\s+$/, NBSP)
ReplaceTrailing(s) ==
  LET j == TrailStart(s, Len(s))
  IN  IF j < Len(s) THEN slice(s, 0, j) \o <<NBSP>> ELSE s

\* internalText without the second replace of line 305
internalText_LeadingOnly(s) == Node("mtext", ReplaceLeading(s), <<>>, "null")

\* lines 302-308
internalText(s) ==
  Node("mtext", ReplaceTrailing(ReplaceLeading(s)), <<>>, "null")

\* TreeHelper.createNode('TeXAtom', [(new TexParser(s, {})).mml()], ...)
TeXAtom(s) == Node("TeXAtom", s, <<>>, "null")

\* The level argument: absent ("null"), or a scriptlevel.
Levels == {"null", "0", "1"}

\* The pieces the inputs are made of.
Piece == << <<"a">>, <<" ">>, <<"$">>, <<"{">>, <<"}">>, <<"\\">>,
            <<"(">>, <<")">>, <<"r", "e", "f">>, <<"e", "q">> >>

Core == << <<"a">>, <<" ">>, <<"$">>, <<"{">>, <<"}">>, <<"\\">>, <<")">> >>
Opener == { <<>>, <<"\\", "r", "e", "f", "{">>, <<"\\", "(">> }

\* Texts longer than the pieces give: a reference with eq and whitespace
\* between two texts, two islands side by side, an empty island, the three
\* kinds of island in one text, and a reference before an escaped dollar.
Sample ==
  { <<"\\", "r", "e", "f", "{", "}", "\\", "$", "a">> } \cup
  { <<"a", "\\", "e", "q", "r", "e", "f", " ", "{", "a", "}", "b">>,
    <<"$", "a", "$", "$", "b", "$">>,
    <<"$", "$">>,
    <<"a", "\\", "(", "b", "\\", ")", "\\", "r", "e", "f", "{", "{", "}", "}",
      "$", "{", "$", "}", "$", " ">> }

\* the text made of the pieces of ps that p numbers
RECURSIVE Flatten(_, _)
Flatten(ps, p) ==
  IF p = <<>> THEN <<>> ELSE ps[Head(p)] \o Flatten(ps, Tail(p))

\* What a call gave: the value it returned, or the error it threw.
NoResult == [error |-> "", value |-> <<>>]
Returned(v) == [error |-> "", value |-> v]
Thrown(e) == [error |-> e, value |-> <<>>]

\* The parsers checkEqnEnv is called on; the global environment of a new
\* parser holds no eqnenv.
Parsers == 1..MaxParsers

Init ==
  /\ pc = "idle"
  /\ fn = ""
  /\ arg = <<>>
  /\ level = "null"
  /\ text = <<>>
  /\ i = 0
  /\ k = 0
  /\ match = ""
  /\ braces = 0
  /\ mml = <<>>
  /\ eqnenv = [p \in Parsers |-> FALSE]
  /\ eqnCalls = [p \in Parsers |-> 0]
  /\ result = NoResult

\* DollarIsland with the slice ending at the cursor: the closing dollar is kept
DollarIsland_KeepsCloser(t, kk, ii) == slice(t, kk, ii)

\* line 220: the substring a closing dollar hands to the TexParser
DollarIsland(t, kk, ii) == slice(t, kk, ii - 1)

\* EscapeRemoved without line 276's i--: the kept character goes, not the \
EscapeRemoved_NoStepBack(t, ii) == slice(t, 0, ii) \o substr(t, ii + 1)

\* line 277: remove \ from \$, \{, \}, or \\ (ii is the cursor after line 276)
EscapeRemoved(t, ii) == slice(t, 0, ii - 1) \o substr(t, ii)

\* Wrap with line 290 testing the truth of level: level 0 counts as absent
Wrap_Truthy(m, l) ==
  IF l \notin {"null", "0"} THEN <<Node("mstyle", <<>>, m, l)>>
  ELSE IF Len(m) > 1 THEN <<Node("mrow", <<>>, m, "null")>>
  ELSE m

\* lines 290-297: the wrapping of the nodes m under the level argument l
Wrap(m, l) ==
  IF l # "null" THEN <<Node("mstyle", <<>>, m, l)>>
  ELSE IF Len(m) > 1 THEN <<Node("mrow", <<>>, m, "null")>>
  ELSE m

\* ClosesDollar without the depth test: a dollar inside braces closes too
ClosesDollar_AnyDepth(m, b) == m = "$"

\* line 217: a dollar closes the island it is read in
ClosesDollar(m, b) == m = "$" /\ b = 0

\* CloseBrace without the test of line 244: the depth is lowered at 0 too
CloseBrace_Unguarded(b) == b - 1

\* lines 244-247: the depth after a closing brace inside an island
CloseBrace(b) == IF b # 0 THEN b - 1 ELSE b

\* RefIsland with the slice starting after the escape
RefIsland_AfterEscape(t, kk, ii) == slice(t, kk + 1, ii)

\* line 238: the substring a closing brace hands to the TexParser
RefIsland(t, kk, ii) == slice(t, kk, ii)

\* RefJump with the cursor put back on the escape
RefJump_Rescan(ii, len) == ii - 1

\* line 261: the cursor after the opener of a reference
RefJump(ii, len) == ii + len

\* ParenIsland with the slice ending after the escape of the closer
ParenIsland_KeepsEscape(t, kk, ii) == slice(t, kk, ii - 1)

\* line 270: the substring an escaped closing parenthesis hands to the TexParser
ParenIsland(t, kk, ii) == slice(t, kk, ii - 2)

\* Flush without the tests of lines 226, 255 and 265: an empty span is pushed
Flush_Always(m, t, kk, e) == Append(m, internalText(slice(t, kk, e)))

\* lines 226-228, 255-258 and 265-267: the pending text from kk up to e is
\* pushed when it is not empty
Flush(m, t, kk, e) ==
  IF kk < e THEN Append(m, internalText(slice(t, kk, e))) ELSE m

\* line 213: the text argument t, and the test for a trigger
Enter(t) ==
  /\ arg' = t
  /\ text' = t
  /\ pc' = IF HasTrigger(t) THEN "loop" ELSE "tail"

\* lines 209-213: the call and its locals
Call ==
  /\ pc = "idle"
  /\ fn' = "internalMath"
  /\ \/ \E n \in 0..MaxPieces : \E p \in [1..n -> 1..Len(Piece)] :
          Enter(Flatten(Piece, p))
     \/ \E o \in Opener : \E n \in 0..MaxCore : \E p \in [1..n -> 1..Len(Core)] :
          Enter(o \o Flatten(Core, p))
     \/ \E t \in Sample : Enter(t)
  /\ i' = 0
  /\ k' = 0
  /\ match' = ""
  /\ braces' = 0
  /\ mml' = <<>>
  /\ UNCHANGED <<level, result, eqnenv, eqnCalls>>

\* lines 214-281: one iteration of the while loop
LoopBody ==
  /\ pc = "loop"
  /\ i < Len(text)
  /\ LET c == charAt(text, i)
         i1 == i + 1
     IN
     IF c = "$" THEN
       IF ClosesDollar(match, braces) THEN
         /\ mml' = Append(mml, TeXAtom(DollarIsland(text, k, i1)))
         /\ match' = ""
         /\ k' = i1
         /\ i' = i1
         /\ UNCHANGED <<text, braces>>
       ELSE IF match = "" THEN
         /\ mml' = Flush(mml, text, k, i1 - 1)
         /\ match' = "$"
         /\ k' = i1
         /\ i' = i1
         /\ UNCHANGED <<text, braces>>
       ELSE
         /\ i' = i1
         /\ UNCHANGED <<text, k, match, braces, mml>>
     ELSE IF c = "{" /\ match # "" THEN
       /\ braces' = braces + 1
       /\ i' = i1
       /\ UNCHANGED <<text, k, match, mml>>
     ELSE IF c = "}" THEN
       IF match = "}" /\ braces = 0 THEN
         /\ mml' = Append(mml, TeXAtom(RefIsland(text, k, i1)))
         /\ match' = ""
         /\ k' = i1
         /\ i' = i1
         /\ UNCHANGED <<text, braces>>
       ELSE IF match # "" THEN
         /\ braces' = CloseBrace(braces)
         /\ i' = i1
         /\ UNCHANGED <<text, k, match, mml>>
       ELSE
         /\ i' = i1
         /\ UNCHANGED <<text, k, match, braces, mml>>
     ELSE IF c = "\\" THEN
       IF match = "" /\ RefMatchLen(substr(text, i1)) >= 0 THEN
         /\ mml' = Flush(mml, text, k, i1 - 1)
         /\ match' = "}"
         /\ k' = i1 - 1
         /\ i' = RefJump(i1, RefMatchLen(substr(text, i1)))
         /\ UNCHANGED <<text, braces>>
       ELSE
         LET c2 == charAt(text, i1)
             i2 == i1 + 1
         IN
         IF c2 = "(" /\ match = "" THEN
           /\ mml' = Flush(mml, text, k, i2 - 2)
           /\ match' = ")"
           /\ k' = i2
           /\ i' = i2
           /\ UNCHANGED <<text, braces>>
         ELSE IF c2 = ")" /\ match = ")" /\ braces = 0 THEN
           /\ mml' = Append(mml, TeXAtom(ParenIsland(text, k, i2)))
           /\ match' = ""
           /\ k' = i2
           /\ i' = i2
           /\ UNCHANGED <<text, braces>>
         ELSE IF IsTrigger(c2) /\ match = "" THEN
           /\ i' = i2 - 1
           /\ text' = EscapeRemoved(text, i2 - 1)
           /\ UNCHANGED <<k, match, braces, mml>>
         ELSE
           /\ i' = i2
           /\ UNCHANGED <<text, k, match, braces, mml>>
     ELSE
       /\ i' = i1
       /\ UNCHANGED <<text, k, match, braces, mml>>
  /\ UNCHANGED <<pc, fn, arg, level, result, eqnenv, eqnCalls>>

\* LoopExit without the test of line 282: an open island is passed over
LoopExit_NoThrow ==
  /\ pc = "loop"
  /\ i >= Len(text)
  /\ pc' = "tail"
  /\ UNCHANGED <<fn, arg, text, i, k, match, braces, mml, level, result, eqnenv, eqnCalls>>

\* lines 282-285: the loop is over; an island still open is an error
LoopExit ==
  /\ pc = "loop"
  /\ i >= Len(text)
  /\ IF match # ""
     THEN pc' = "thrown" /\ result' = Thrown("MathNotTerminated")
     ELSE pc' = "tail" /\ UNCHANGED result
  /\ UNCHANGED <<fn, arg, text, i, k, match, braces, mml, level, eqnenv, eqnCalls>>

\* lines 287-289: the trailing text
Trailing ==
  /\ pc = "tail"
  /\ mml' = IF k < Len(text)
            THEN Append(mml, internalText(substr(text, k)))
            ELSE mml
  /\ pc' = "post"
  /\ UNCHANGED <<fn, arg, text, i, k, match, braces, level, result, eqnenv, eqnCalls>>

\* lines 290-297: the wrapping and the return; level is the call's third
\* argument, which only these lines read
Post ==
  /\ pc = "post"
  /\ \E l \in Levels :
       /\ level' = l
       /\ result' = Returned(Wrap(mml, l))
  /\ pc' = "returned"
  /\ UNCHANGED <<fn, arg, text, i, k, match, braces, mml, eqnenv, eqnCalls>>

Next ==
  \/ Call
  \/ LoopBody
  \/ LoopExit
  \/ Trailing
  \/ Post

Spec == Init /\ [][Next]_vars

\* lines 209-213, for the texts of at most MaxLivePieces pieces and the
\* samples
CallLive ==
  /\ pc = "idle"
  /\ fn' = "internalMath"
  /\ \/ \E n \in 0..MaxLivePieces : \E p \in [1..n -> 1..Len(Piece)] :
          Enter(Flatten(Piece, p))
     \/ \E t \in Sample : Enter(t)
  /\ i' = 0
  /\ k' = 0
  /\ match' = ""
  /\ braces' = 0
  /\ mml' = <<>>
  /\ UNCHANGED <<level, eqnenv, eqnCalls, result>>

NextLive ==
  \/ CallLive
  \/ LoopBody
  \/ LoopExit
  \/ Trailing
  \/ Post

\* internalMath runs to its end once it is called: no step of it waits
SpecLive ==
  Init /\ [][NextLive]_vars /\ WF_vars(LoopBody \/ LoopExit \/ Trailing \/ Post)

-----------------------------------------------------------------------------
(* substituteArgs and addArgs *)

\* line 347
MAXBUFFER == 5 * 1024

\* s2.match(/^[a-z]/i)
StartsWithLetter(s) == Len(s) > 0 /\ IsLetter(s[1])

\* EndsWithMacro for /\\[a-z]+$/i: an escaped \ before the letters counts too
EndsWithMacro_AnyEscape(s) ==
  \E a \in 1..(Len(s) - 1) :
    /\ s[a] = "\\"
    /\ \A b \in (a + 1)..Len(s) : IsLetter(s[b])

\* s1.match(/(^|[^\\])(\\\\)*\\[a-z]+$/i): the \ before the letters is at a,
\* and n pairs of \ stand before it, after the start or a character not \
EndsWithMacro(s) ==
  \E a \in 1..(Len(s) - 1) :
    /\ s[a] = "\\"
    /\ \A b \in (a + 1)..Len(s) : IsLetter(s[b])
    /\ \E n \in 0..((a - 1) \div 2) :
         /\ \A b \in (a - 2 * n)..(a - 1) : s[b] = "\\"
         /\ (a - 2 * n = 1 \/ s[a - 2 * n - 1] # "\\")

\* addArgs with the test of line 392 made before the space is added
addArgs_SpaceUncounted(s1, s2) ==
  IF Len(s1) + Len(s2) > MAXBUFFER THEN Thrown("MaxBufferSize")
  ELSE Returned((IF StartsWithLetter(s2) /\ EndsWithMacro(s1)
                 THEN s1 \o <<" ">> ELSE s1) \o s2)

\* lines 387-398
addArgs(s1, s2) ==
  LET t1 == IF StartsWithLetter(s2) /\ EndsWithMacro(s1)
            THEN s1 \o <<" ">> ELSE s1
  IN  IF Len(t1) + Len(s2) > MAXBUFFER THEN Thrown("MaxBufferSize")
      ELSE Returned(t1 \o s2)

DigitChar == <<"1", "2", "3", "4", "5", "6", "7", "8", "9">>
\* parseInt(c, 10) for a c that matches /[1-9]/
parseInt(c) == CHOOSE d \in 1..9 : DigitChar[d] = c

\* IllegalParam with /[0-9]/ for /[1-9]/
IllegalParam_ZeroAllowed(c, args) ==
  IF c = "0" THEN FALSE
  ELSE (\A d \in 1..9 : DigitChar[d] # c) \/ parseInt(c) > Len(args)

\* line 367: !c.match(/[1-9]/) || parseInt(c, 10) > args.length
IllegalParam(c, args) ==
  (\A d \in 1..9 : DigitChar[d] # c) \/ parseInt(c) > Len(args)

\* a character c, or the empty string charAt gives past the end, as a string
Chars(c) == IF c = "" THEN <<>> ELSE <<c>>

\* the first index from j on at which str holds \ or #, or str's length
NextSpecial(str, j) ==
  LET at == {h \in j..(Len(str) - 1) : charAt(str, h) \in {"\\", "#"}}
  IN  IF at = {} THEN Len(str) ELSE CHOOSE h \in at : \A g \in at : h <= g

\* Escaped without the i++ of line 360: the character after \ is read again
Escaped_NotSkipped(str, ii) == [add |-> <<"\\">>, next |-> ii]

\* line 360, the cursor ii after the \: what text gains and the cursor after
Escaped(str, ii) ==
  [add |-> <<"\\">> \o Chars(charAt(str, ii)), next |-> ii + 1]

\* lines 357-379: the loop from cursor ii on.  The iterations of line 376
\* over a run of characters that are neither \ nor # are taken together.
\* An args[n] that is undefined makes line 389 throw a TypeError.
RECURSIVE SubstLoop(_, _, _, _, _)
SubstLoop(args, str, ii, txt, newstring) ==
  IF ii >= Len(str) THEN addArgs(newstring, txt)
  ELSE
    LET c == charAt(str, ii)
    IN
    IF c = "\\" THEN
      SubstLoop(args, str, Escaped(str, ii + 1).next,
                txt \o Escaped(str, ii + 1).add, newstring)
    ELSE IF c = "#" THEN
      LET c2 == charAt(str, ii + 1)
      IN
      IF c2 = "#" THEN SubstLoop(args, str, ii + 2, txt \o <<c2>>, newstring)
      ELSE IF IllegalParam(c2, args) THEN Thrown("IllegalMacroParam")
      ELSE
        LET d == IF c2 = "0" THEN 0 ELSE parseInt(c2)
            r1 == addArgs(newstring, txt)
            r2 == addArgs(r1.value, args[d])
        IN  IF r1.error # "" THEN r1
            ELSE IF d \notin 1..Len(args) THEN Thrown("TypeError")
            ELSE IF r2.error # "" THEN r2
            ELSE SubstLoop(args, str, ii + 2, <<>>, r2.value)
    ELSE
      LET e == NextSpecial(str, ii)
      IN  SubstLoop(args, str, e, txt \o slice(str, ii, e), newstring)

\* lines 352-380
substituteArgs(args, str) == SubstLoop(args, str, 0, <<>>, <<>>)

\* The characters the bodies, the arguments and the sides are made of.
BodyChar == <<"a", "\\", "#", "1", "2", "0">>
ArgStr == << <<>>, <<"X">>, <<"\\", "a">> >>
SideChar == <<"a", "\\", "1", " ">>

\* the string of the characters of cs that p numbers
Word(cs, p) == [j \in 1..Len(p) |-> cs[p[j]]]

\* n times the letter a
Long(n) == [j \in 1..n |-> "a"]
LongLen == (MAXBUFFER - Slack)..(MAXBUFFER + 1)
LongTail == { <<>>, <<"\\", "a">>, <<"\\", "\\", "a">> }
LongBody == { <<>>, <<"#", "1">>, <<"#", "#">>, <<"\\", "a">>, <<"X">> }
LongTemplate == { <<"#", "1">>, <<"#", "1", "#", "2">>, <<"#", "1", "a">>,
                  <<"a", "#", "1">>, <<"#", "1", "#", "#">>,
                  <<"#", "1", "#", "0">> }
\* substituteArgs(["X", "Y"], "#1-#2-##") and substituteArgs(["X"], "#2")
Example == { << << <<"X">>, <<"Y">> >>,
                <<"#", "1", "-", "#", "2", "-", "#", "#">> >>,
             << << <<"X">> >>, <<"#", "2">> >> }

\* the call has run to its end: its result, and the position that tells it
Finish(r) ==
  /\ result' = r
  /\ pc' = IF r.error = "" THEN "returned" ELSE "thrown"

\* a call of substituteArgs (lines 352-380)
SubstituteArgsCall ==
  /\ pc = "idle"
  /\ fn' = "substituteArgs"
  /\ \/ \E n \in 0..MaxBody : \E p \in [1..n -> 1..Len(BodyChar)] :
        \E m \in 0..MaxArgs : \E a \in [1..m -> 1..Len(ArgStr)] :
          LET args == [j \in 1..m |-> ArgStr[a[j]]]
              str == Word(BodyChar, p)
          IN  arg' = <<args, str>> /\ Finish(substituteArgs(args, str))
     \/ \E n \in LongLen : \E t \in LongBody : \E m \in 0..1 :
          LET args == [j \in 1..m |-> <<"X">>]
              str == Long(n - Len(t)) \o t
          IN  arg' = <<args, str>> /\ Finish(substituteArgs(args, str))
     \/ \E n \in LongLen : \E t \in LongTail : \E b \in LongTemplate :
          LET args == <<Long(n - Len(t)) \o t, <<"X">> >>
          IN  arg' = <<args, b>> /\ Finish(substituteArgs(args, b))
     \/ \E x \in Example :
          arg' = x /\ Finish(substituteArgs(x[1], x[2]))
  /\ UNCHANGED <<text, i, k, match, braces, mml, level, eqnenv, eqnCalls>>

\* a call of addArgs (lines 387-398)
AddArgsCall ==
  /\ pc = "idle"
  /\ fn' = "addArgs"
  /\ \/ \E n \in 0..MaxLeft : \E p \in [1..n -> 1..Len(SideChar)] :
        \E m \in 0..MaxRight : \E q \in [1..m -> 1..Len(SideChar)] :
          LET s1 == Word(SideChar, p)
              s2 == Word(SideChar, q)
          IN  arg' = <<s1, s2>> /\ Finish(addArgs(s1, s2))
     \/ \E n \in LongLen : \E t \in LongTail :
        \E m \in 0..MaxRight : \E q \in [1..m -> 1..Len(SideChar)] :
          LET s1 == Long(n - Len(t)) \o t
              s2 == Word(SideChar, q)
          IN  arg' = <<s1, s2>> /\ Finish(addArgs(s1, s2))
  /\ UNCHANGED <<text, i, k, match, braces, mml, level, eqnenv, eqnCalls>>

NextSubst ==
  \/ SubstituteArgsCall
  \/ AddArgsCall

SpecSubst == Init /\ [][NextSubst]_vars

-----------------------------------------------------------------------------
(* matchDimen and dimen2em *)

\* Numbers are kept exact, as fractions <<numerator, denominator>> with a
\* positive denominator; the rounding of floating point is left out.
Frac(n, d) == <<n, d>>
Times(x, y) == <<x[1] * y[1], x[2] * y[2]>>
Over(x, y) ==
  IF y[1] < 0 THEN <<0 - x[1] * y[2], 0 - x[2] * y[1]>>
  ELSE <<x[1] * y[2], x[2] * y[1]>>
SameNumber(x, y) == x[1] * y[2] = y[1] * x[2]

\* lines 45-46
emPerInch == Frac(72, 10)
pxPerInch == Frac(72, 1)

\* line 59: the units, in the order of the alternatives
Units == << <<"p", "t">>, <<"e", "m">>, <<"e", "x">>, <<"m", "u">>,
            <<"p", "x">>, <<"m", "m">>, <<"c", "m">>, <<"i", "n">>,
            <<"p", "c">> >>

\* lines 47-57: UNIT_CASES[u](m) for a u that is a key
UNIT_CASES(u, m) ==
  IF u = <<"e", "m">> THEN m
  ELSE IF u = <<"e", "x">> THEN Times(m, Frac(43, 100))
  ELSE IF u = <<"p", "t">> THEN Over(m, Frac(10, 1))
  ELSE IF u = <<"p", "c">> THEN Times(m, Frac(12, 10))
  ELSE IF u = <<"p", "x">> THEN Over(Times(m, emPerInch), pxPerInch)
  ELSE IF u = <<"i", "n">> THEN Times(m, emPerInch)
  ELSE IF u = <<"c", "m">> THEN Over(Times(m, emPerInch), Frac(254, 100))
  ELSE IF u = <<"m", "m">> THEN Over(Times(m, emPerInch), Frac(254, 10))
  ELSE Over(m, Frac(18, 1))

\* the keys of UNIT_CASES
IsUnitKey(u) == \E n \in 1..Len(Units) : Units[n] = u

\* the number of digits s has from index j on (\d* at j)
RECURSIVE DigitRun(_, _)
DigitRun(s, j) == IF charAt(s, j) \in Digits THEN 1 + DigitRun(s, j + 1) ELSE 0

\* line 58: the index after the match of num at index j of s, or -1.  The
\* sign, the digits and the fraction are taken as far as they go: what may
\* follow num starts with whitespace or a letter, so giving back helps nothing.
NumEnd(s, j) ==
  LET a == IF charAt(s, j) \in {"-", "+"} THEN j + 1 ELSE j
      d == DigitRun(s, a)
  IN  IF charAt(s, a) \in {".", ","}
      THEN (IF DigitRun(s, a + 1) >= 1 THEN a + 1 + DigitRun(s, a + 1) ELSE -1)
      ELSE IF d >= 1
      THEN (IF charAt(s, a + d) \in {".", ","}
            THEN a + d + 1 + DigitRun(s, a + d + 1) ELSE a + d)
      ELSE -1

\* CommaToPoint without the replace of line 75: the comma stays
CommaToPoint_Kept(s) == s

\* match[1].replace(/,/, '.'): the first comma
CommaToPoint(s) ==
  LET at == {j \in 1..Len(s) : s[j] = ","}
  IN  IF at = {} THEN s
      ELSE LET f == CHOOSE j \in at : \A h \in at : j <= h
           IN  [j \in 1..Len(s) |-> IF j = f THEN "." ELSE s[j]]

\* null, null, 0 (null stands as the empty string: a numeral and a unit that
\* matched are never empty, and value || '1' treats the two alike)
NoMatch == [value |-> <<>>, unit |-> <<>>, length |-> 0]

\* lines 60-61 and 72-77: dimenRest when rest, dimenEnd otherwise
matchDimen(dim, rest) ==
  LET p0 == SpaceRun(dim, 0)
      p1 == NumEnd(dim, p0)
      p2 == p1 + SpaceRun(dim, p1)
      p3 == p2 + 2
      p4 == IF rest THEN (IF charAt(dim, p3) = " " THEN p3 + 1 ELSE p3)
            ELSE p3 + SpaceRun(dim, p3)
  IN  IF p1 < 0 THEN NoMatch
      ELSE IF ~IsUnitKey(slice(dim, p2, p3)) THEN NoMatch
      ELSE IF ~rest /\ p4 # Len(dim) THEN NoMatch
      ELSE [value |-> CommaToPoint(slice(dim, p0, p1)),
            unit |-> slice(dim, p2, p3),
            length |-> p4]

DecimalDigit == <<"0", "1", "2", "3", "4", "5", "6", "7", "8", "9">>
DigitValue(c) == (CHOOSE d \in 1..10 : DecimalDigit[d] = c) - 1

\* the digits of s from index j on (0-based), read on from the number n
RECURSIVE ReadDigits(_, _, _)
ReadDigits(s, j, n) ==
  IF charAt(s, j) \in Digits THEN ReadDigits(s, j + 1, 10 * n + DigitValue(charAt(s, j)))
  ELSE n

RECURSIVE Pow10(_)
Pow10(n) == IF n = 0 THEN 1 ELSE 10 * Pow10(n - 1)

\* parseFloat(s) for an s that num matched, with a point for the comma
parseFloat(s) ==
  LET neg == charAt(s, 0) = "-"
      a == IF charAt(s, 0) \in {"-", "+"} THEN 1 ELSE 0
      d == DigitRun(s, a)
      whole == ReadDigits(s, a, 0)
      f == IF charAt(s, a + d) = "." THEN DigitRun(s, a + d + 1) ELSE 0
      all == IF f > 0 THEN ReadDigits(s, a + d + 1, whole) ELSE whole
  IN  Frac(IF neg THEN 0 - all ELSE all, Pow10(f))

\* lines 85-90
dimen2em(dim) ==
  LET r == matchDimen(dim, FALSE)
      m == parseFloat(IF r.value = <<>> THEN <<"1">> ELSE r.value)
  IN  IF IsUnitKey(r.unit) THEN UNIT_CASES(r.unit, m) ELSE Frac(0, 1)

\* The pieces the dimension texts are made of.
DimPiece == << <<"1">>, <<"2">>, <<".">>, <<",">>, <<"-">>, <<" ">>, <<"x">>,
               <<"p", "t">>, <<"e", "m">>, <<"i", "n">> >>
\* dimen2em("3xyz"), a signed numeral, whitespace that is no space, and each
\* unit alone and after 1, 2, 12 and 21
DimExample ==
  { <<"3", "x", "y", "z">>, <<"+", "1", "2", ".", "5", "e", "x">>,
    <<"1", "p", "t", NBSP>>, <<NBSP, "1", NBSP, "p", "t">> }
  \cup { n \o Units[u] : n \in { <<>>, <<"1">>, <<"2">>, <<"1", "2">>, <<"2", "1">> },
                         u \in 1..Len(Units) }

\* the text made of the pieces of DimPiece that p numbers
RECURSIVE DimText(_)
DimText(p) == IF p = <<>> THEN <<>> ELSE DimPiece[Head(p)] \o DimText(Tail(p))

\* a call of dimen2em (lines 85-90)
Dimen2emCall ==
  /\ pc = "idle"
  /\ fn' = "dimen2em"
  /\ \/ \E n \in 0..MaxDimPieces : \E p \in [1..n -> 1..Len(DimPiece)] :
          arg' = <<DimText(p)>> /\ Finish(Returned(dimen2em(DimText(p))))
     \/ \E x \in DimExample :
          arg' = <<x>> /\ Finish(Returned(dimen2em(x)))
  /\ UNCHANGED <<text, i, k, match, braces, mml, level, eqnenv, eqnCalls>>

\* a call of matchDimen (lines 72-77)
MatchDimenCall ==
  /\ pc = "idle"
  /\ fn' = "matchDimen"
  /\ \E rest \in BOOLEAN :
       \/ \E n \in 0..MaxDimPieces : \E p \in [1..n -> 1..Len(DimPiece)] :
            /\ arg' = <<DimText(p), rest>>
            /\ Finish(Returned(matchDimen(DimText(p), rest)))
       \/ \E x \in DimExample :
            arg' = <<x, rest>> /\ Finish(Returned(matchDimen(x, rest)))
  /\ UNCHANGED <<text, i, k, match, braces, mml, level, eqnenv, eqnCalls>>

NextDimen ==
  \/ Dimen2emCall
  \/ MatchDimenCall

SpecDimen == Init /\ [][NextDimen]_vars

-----------------------------------------------------------------------------
(* checkEqnEnv *)

\* SetFlag without line 408: the flag is left as it was
SetFlag_Forgotten(g, p) == g

\* line 408: parser.stack.global.eqnenv = true
SetFlag(g, p) == [g EXCEPT ![p] = TRUE]

\* lines 404-409: a call of checkEqnEnv on the parser p, after any other call
\* on any parser
CheckEqnEnv ==
  /\ pc \in {"idle", "returned", "thrown"}
  /\ \E p \in Parsers :
       /\ eqnCalls[p] < MaxCalls
       /\ fn' = "checkEqnEnv"
       /\ arg' = <<p>>
       /\ eqnCalls' = [eqnCalls EXCEPT ![p] = @ + 1]
       /\ IF eqnenv[p]
          THEN Finish(Thrown("ErroneousNestingEq")) /\ UNCHANGED eqnenv
          ELSE eqnenv' = SetFlag(eqnenv, p) /\ Finish(Returned(<<>>))
  /\ UNCHANGED <<text, i, k, match, braces, mml, level>>

NextEqn == CheckEqnEnv

SpecEqn == Init /\ [][NextEqn]_vars

-----------------------------------------------------------------------------
(* What the claims speak of *)

TriggerChars == {"$", "{", "}", "\\"}

\* s holds no trigger character
Plain(s) == \A j \in 1..Len(s) : s[j] \notin TriggerChars

\* The content of a Text segment made of the span s: s with the whitespace
\* run at its start and the one at its end each turned into one NBSP.
Normalised(s) ==
  LET solid == {j \in 1..Len(s) : ~IsSpace(s[j])}
  IN  IF s = <<>> THEN <<>>
      ELSE IF solid = {} THEN <<NBSP>>
      ELSE LET lo == CHOOSE j \in solid : \A h \in solid : j <= h
               hi == CHOOSE j \in solid : \A h \in solid : j >= h
           IN  (IF lo > 1 THEN <<NBSP>> ELSE <<>>) \o SubSeq(s, lo, hi)
               \o (IF hi < Len(s) THEN <<NBSP>> ELSE <<>>)

TextSeg(s) == [kind |-> "mtext", str |-> Normalised(s), kids |-> <<>>, level |-> "null"]
NotationSeg(s) == [kind |-> "TeXAtom", str |-> s, kids |-> <<>>, level |-> "null"]

Scanning == fn = "internalMath"
\* the scan is over and its segments are in mml
Scanned == Scanning /\ pc \in {"post", "returned"}
\* the loop is about to read the character c
Reads(c) == Scanning /\ pc = "loop" /\ i < Len(text) /\ charAt(text, i) = c

-----------------------------------------------------------------------------
(* C1 *)

C1_AtEnd ==
  (Scanning /\ pc = "loop" /\ i >= Len(text) /\ match \in {"$", ")", "}"})
    => /\ pc' = "thrown"
       /\ result' = [error |-> "MathNotTerminated", value |-> <<>>]

C1_Outcome ==
  /\ (Scanning /\ pc = "thrown") =>
       /\ match # ""
       /\ result = [error |-> "MathNotTerminated", value |-> <<>>]
  /\ Scanned => match = ""
  /\ (Scanning /\ pc \in {"returned", "thrown"} /\ arg = <<"a", " ", "$", "a">>)
       => pc = "thrown"

\* C1: when the scan reaches the end of the input in DollarMath, ParenMath or
\* RefBraceMath, the call throws MathNotTerminated and returns no segment,
\* whatever it had pushed before; a call that returns ended in Plain mode; and
\* "a $a" throws.
C1_Unterminated == [][C1_AtEnd]_vars /\ []C1_Outcome

\* an unterminated dollar island after segments were pushed
C1_Witness == Scanning /\ pc = "thrown" /\ match = "$" /\ Len(mml) >= 1

-----------------------------------------------------------------------------
(* C2 *)

\* s is t1 $ m $ t2, the dollars at p and q, with t1 and t2 non-empty and
\* no trigger character but the two dollars
C2_Form(s, p, q) ==
  /\ 1 < p /\ p < q /\ q < Len(s)
  /\ s[p] = "$" /\ s[q] = "$"
  /\ \A j \in 1..Len(s) : j \notin {p, q} => s[j] \notin TriggerChars

C2_Dollar ==
  Reads("$") =>
    IF match = "" THEN
      /\ match' = "$"
      /\ k' = i + 1
      /\ mml' = IF k < i THEN Append(mml, TextSeg(SubSeq(text, k + 1, i)))
                ELSE mml
    ELSE IF match = "$" /\ braces = 0 THEN
      /\ match' = ""
      /\ k >= 1 /\ text[k] = "$"
      /\ mml' = Append(mml, NotationSeg(SubSeq(text, k + 1, i)))
      /\ k' = i + 1
    ELSE match' = match /\ mml' = mml

C2_Segments ==
  Scanned =>
    \A p, q \in 1..Len(arg) :
      C2_Form(arg, p, q) =>
        mml = << TextSeg(SubSeq(arg, 1, p - 1)),
                 NotationSeg(SubSeq(arg, p + 1, q - 1)),
                 TextSeg(SubSeq(arg, q + 1, Len(arg))) >>

\* C2: a dollar read in Plain mode pushes the pending non-empty text and opens
\* DollarMath; a dollar read in DollarMath at depth 0 pushes the substring
\* strictly between the opening dollar and itself as one Notation segment and
\* goes back to Plain; so t1 $ m $ t2 gives Text(t1), Notation(m), Text(t2).
C2_DollarIsland == [][C2_Dollar]_vars /\ []C2_Segments

\* a returned scan of t1 $ m $ t2 with a non-empty m
C2_Witness ==
  /\ Scanning /\ pc = "returned" /\ level = "null"
  /\ \E p, q \in 1..Len(arg) : C2_Form(arg, p, q) /\ q > p + 1
  /\ Len(result.value) = 1 /\ Len(result.value[1].kids) = 3

-----------------------------------------------------------------------------
(* C3 *)

\* the loop is at an escape in Plain mode, before a trigger character
C3_AtEscape ==
  /\ Reads("\\")
  /\ match = ""
  /\ charAt(text, i + 1) \in TriggerChars

C3_Escape ==
  C3_AtEscape =>
    /\ text' = SubSeq(text, 1, i) \o SubSeq(text, i + 2, Len(text))
    /\ i' = i + 1
    /\ text'[i'] = text[i + 2]
    /\ match' = "" /\ braces' = braces /\ k' = k /\ mml' = mml

\* s is t1 \ d t2, the escape at p, d a trigger character, and no other
\* trigger character
C3_Form(s, p) ==
  /\ p < Len(s)
  /\ s[p] = "\\" /\ s[p + 1] \in TriggerChars
  /\ \A j \in 1..Len(s) : j \notin {p, p + 1} => s[j] \notin TriggerChars

C3_Segments ==
  Scanned =>
    \A p \in 1..Len(arg) :
      C3_Form(arg, p) =>
        mml = << TextSeg(SubSeq(arg, 1, p - 1) \o SubSeq(arg, p + 1, Len(arg))) >>

\* C3: in Plain mode an escape before $, {, } or an escape is removed from the
\* text, the character after it stays, the mode stays Plain and the cursor
\* comes to stand after the kept character; so t1 \ d t2 gives the one Text
\* segment t1 d t2.
C3_LiteralEscape == [][C3_Escape]_vars /\ []C3_Segments

\* a returned scan of t1 \$ t2 with t1 and t2 non-empty
C3_Witness ==
  /\ Scanning /\ pc = "returned" /\ level = "null"
  /\ \E p \in 2..(Len(arg) - 2) : C3_Form(arg, p) /\ arg[p + 1] = "$"
  /\ Len(result.value) = 1 /\ result.value[1].kind = "mtext"

-----------------------------------------------------------------------------
(* C4 *)

C4_Case == Scanning /\ pc = "returned" /\ level = "null" /\ Plain(arg)

\* C4 as claimed: a text without trigger characters gives exactly one Text
\* segment whose content equals the input.
C4_Original ==
  C4_Case =>
    result.value = << [kind |-> "mtext", str |-> arg, kids |-> <<>>, level |-> "null"] >>

\* C4, amended: a non-empty text without trigger characters gives exactly one
\* Text segment, whose content is the input with its leading whitespace run
\* and its trailing whitespace run each replaced by one NBSP (the input
\* itself when it neither starts nor ends with whitespace); the empty text
\* gives no segment.
C4_PlainText ==
  C4_Case =>
    /\ arg = <<>> => result.value = <<>>
    /\ arg # <<>> => result.value = << TextSeg(arg) >>
    /\ (arg # <<>> /\ ~IsSpace(arg[1]) /\ ~IsSpace(arg[Len(arg)]))
         => result.value[1].str = arg

\* a returned scan of a plain text that starts with whitespace
C4_Witness == C4_Case /\ Len(arg) >= 2 /\ IsSpace(arg[1]) /\ result.error = ""

-----------------------------------------------------------------------------
(* What the claims on substituteArgs and addArgs speak of *)

Substituting == fn = "substituteArgs" /\ pc \in {"returned", "thrown"}
Adding == fn = "addArgs" /\ pc \in {"returned", "thrown"}

\* the number of letters s ends with
LettersAtEnd(s) ==
  CHOOSE n \in 0..Len(s) :
    /\ n = Len(s) \/ ~IsLetter(s[Len(s) - n])
    /\ \A b \in (Len(s) - n + 1)..Len(s) : IsLetter(s[b])

\* the number of escapes in a row that end at index e of s
EscapesUpTo(s, e) ==
  CHOOSE m \in 0..e :
    /\ m = e \/ s[e - m] # "\\"
    /\ \A b \in (e - m + 1)..e : s[b] = "\\"

\* s ends in an unescaped control word of at least min letters: an escape
\* with an even number of escapes before it, then only letters
EndsInControlWord(s, min) ==
  LET n == LettersAtEnd(s)
      m == EscapesUpTo(s, Len(s) - n)
  IN  n >= min /\ m % 2 = 1

\* left and right joined, with one space where a control word of at least
\* min letters would run into a letter
Joined(left, right, min) ==
  left \o (IF EndsInControlWord(left, min) /\ right # <<>> /\ IsLetter(right[1])
           THEN <<" ">> ELSE <<>>) \o right

\* the first index from j on at which b holds an escape or a #, or Len(b) + 1
SpecialFrom(b, j) ==
  CHOOSE e \in j..(Len(b) + 1) :
    /\ e = Len(b) + 1 \/ b[e] \in {"\\", "#"}
    /\ \A h \in j..(e - 1) : b[h] \notin {"\\", "#"}

\* the # at index j of b is followed by # or by a digit within 1..Len(args)
LegalAt(args, b, j) ==
  /\ j < Len(b)
  /\ \/ b[j + 1] = "#"
     \/ \E d \in 1..Len(args) : d <= 9 /\ DigitChar[d] = b[j + 1]

\* every unescaped # of b from index j on is followed by # or by a digit
\* within 1..Len(args)
RECURSIVE WellFormed(_, _, _)
WellFormed(args, b, j) ==
  IF j > Len(b) THEN TRUE
  ELSE IF b[j] = "\\" THEN WellFormed(args, b, j + 2)
  ELSE IF b[j] = "#" THEN LegalAt(args, b, j) /\ WellFormed(args, b, j + 2)
  ELSE WellFormed(args, b, SpecialFrom(b, j))

\* The pieces of the expansion of b from index j on, in order: body text,
\* argument, body text, ..., body text (cur is the body text gathered so far).
\* In body text ## stands as #, and an escape stands with the character after.
\* With stop, the scan ends at the first # that is followed neither by # nor
\* by a digit within 1..Len(args), and the text before it is the last piece.
RECURSIVE Pieces(_, _, _, _, _)
Pieces(args, b, j, cur, stop) ==
  IF j > Len(b) THEN <<cur>>
  ELSE IF b[j] = "\\" THEN
    Pieces(args, b, j + 2,
           cur \o SubSeq(b, j, IF j < Len(b) THEN j + 1 ELSE j), stop)
  ELSE IF b[j] = "#" THEN
    IF j < Len(b) /\ b[j + 1] = "#" THEN
      Pieces(args, b, j + 2, cur \o <<"#">>, stop)
    ELSE IF stop /\ ~LegalAt(args, b, j) THEN <<cur>>
    ELSE <<cur, args[parseInt(b[j + 1])]>> \o Pieces(args, b, j + 2, <<>>, stop)
  ELSE
    LET e == SpecialFrom(b, j)
    IN  Pieces(args, b, e, cur \o SubSeq(b, j, e - 1), stop)

RECURSIVE JoinAll(_, _, _)
JoinAll(acc, ps, min) ==
  IF ps = <<>> THEN acc ELSE JoinAll(Joined(acc, Head(ps), min), Tail(ps), min)

RECURSIVE Flat(_)
Flat(ps) == IF ps = <<>> THEN <<>> ELSE Head(ps) \o Flat(Tail(ps))

NotBlank(c) == c # " "

\* the expansion of a well-formed call, with the spaces put in
Expansion(args, b) == JoinAll(<<>>, Pieces(args, b, 1, <<>>, FALSE), 1)

-----------------------------------------------------------------------------
(* C5 *)

C5_Case == Substituting /\ WellFormed(arg[1], arg[2], 1)

\* C5: when every unescaped # of the body is followed by # or by a digit
\* within 1..len(args), substituteArgs raises no IllegalMacroParam, and what
\* it returns is the scan's pieces in order (body text with ## as # and with
\* each escape kept with the character after it, and args[d] for each #d),
\* joined with a space only after a control word that a letter follows;
\* without those spaces it is the plain concatenation of the pieces.  And
\* substituteArgs(["X", "Y"], "#1-#2-##") = "X-Y-#".
C5_Substitution ==
  /\ C5_Case =>
       /\ result.error \in {"", "MaxBufferSize"}
       /\ result.error = "" =>
            LET ps == Pieces(arg[1], arg[2], 1, <<>>, FALSE)
            IN  /\ result.value = JoinAll(<<>>, ps, 1)
                /\ SelectSeq(result.value, NotBlank) = SelectSeq(Flat(ps), NotBlank)
                /\ Len(result.value) - Len(Flat(ps)) \in 0..(Len(ps) - 1)
  /\ (Substituting /\ arg = << << <<"X">>, <<"Y">> >>,
                              <<"#", "1", "-", "#", "2", "-", "#", "#">> >>)
       => result = [error |-> "", value |-> <<"X", "-", "Y", "-", "#">>]

\* a returned expansion with an escaped #, a ## and a placeholder
C5_Witness ==
  /\ C5_Case /\ pc = "returned"
  /\ arg[2] = <<"\\", "#", "#", "1">>
  /\ arg[1] = << <<"X">> >>
  /\ result.value = <<"\\", "#", "X">>

-----------------------------------------------------------------------------
(* C6 *)

C6_Case == Substituting /\ ~WellFormed(arg[1], arg[2], 1)

\* what the scan has joined when it comes to the first illegal #: all the
\* pieces before it but the body text still pending
C6_JoinedBefore ==
  LET ps == Pieces(arg[1], arg[2], 1, <<>>, TRUE)
  IN  JoinAll(<<>>, SubSeq(ps, 1, Len(ps) - 1), 1)

\* C6: when the body holds an unescaped # followed by a digit above the number
\* of arguments, by 0, by a character that is neither a digit nor #, or by
\* nothing, substituteArgs returns no string; it raises IllegalMacroParam
\* when the scan comes to that # (no MaxBufferSize was raised before it), and
\* substituteArgs(["X"], "#2") raises it.
C6_IllegalParameter ==
  /\ C6_Case =>
       /\ pc = "thrown"
       /\ result.value = <<>>
       /\ result.error = IF Len(C6_JoinedBefore) <= MAXBUFFER
                         THEN "IllegalMacroParam" ELSE "MaxBufferSize"
  /\ (Substituting /\ arg = << << <<"X">> >>, <<"#", "2">> >>)
       => result = [error |-> "IllegalMacroParam", value |-> <<>>]

\* #0 after a legal placeholder: the scan came to it and raised
C6_Witness ==
  /\ C6_Case
  /\ arg[2] = <<"#", "1", "#", "0">>
  /\ Len(arg[1]) = 1
  /\ result.error = "IllegalMacroParam"

-----------------------------------------------------------------------------
(* C7 *)

\* C7: a string substituteArgs or addArgs returns has at most 5120
\* characters; a well-formed call of substituteArgs raises MaxBufferSize
\* exactly when its expansion, spaces included, is longer than that, with or
\* without a placeholder in the body; and so does addArgs.
C7_BufferLimit ==
  /\ (Substituting \/ Adding) =>
       /\ Len(result.value) <= 5120
       /\ MAXBUFFER = 5120
  /\ C5_Case =>
       (result.error = "MaxBufferSize" <=> Len(Expansion(arg[1], arg[2])) > 5120)
  /\ C5_Case =>
       (pc = "returned" <=> Len(Expansion(arg[1], arg[2])) <= 5120)
  /\ Adding =>
       /\ result.error = "MaxBufferSize" <=> Len(Joined(arg[1], arg[2], 1)) > 5120
       /\ pc = "returned" <=> Len(Joined(arg[1], arg[2], 1)) <= 5120

\* an expansion of exactly 5120 characters, one of them a space put in
C7_Witness ==
  /\ C5_Case /\ pc = "returned"
  /\ Len(result.value) = 5120
  /\ Len(Flat(Pieces(arg[1], arg[2], 1, <<>>, FALSE))) = 5119

-----------------------------------------------------------------------------
(* C8 *)

\* the pieces ps stand in out from index j on, each after at most one space,
\* and none starts with a letter right after a control word of out
RECURSIVE Separated(_, _, _)
Separated(out, ps, j) ==
  IF ps = <<>> THEN j = Len(out) + 1
  ELSE
    LET p == Head(ps)
        here == SubSeq(out, j, j + Len(p) - 1) = p
        runsOn == /\ p # <<>> /\ IsLetter(p[1])
                  /\ EndsInControlWord(SubSeq(out, 1, j - 1), 1)
    IN  IF here /\ ~runsOn THEN Separated(out, Tail(ps), j + Len(p))
        ELSE /\ j <= Len(out) /\ out[j] = " "
             /\ SubSeq(out, j + 1, j + Len(p)) = p
             /\ Separated(out, Tail(ps), j + 1 + Len(p))

\* C8 as claimed: the space goes in after a control word of several letters
\* only.
C8_Original ==
  (Adding /\ pc = "returned") => result.value = Joined(arg[1], arg[2], 2)

\* C8, amended: addArgs(left, right), when it returns, returns left + one
\* space + right when left ends in an unescaped control word of one or more
\* letters (an escape preceded by an even number of escapes and followed only
\* by letters, at least one, up to the end of left) and right begins with a
\* letter, and left + right in every other case; and in what substituteArgs
\* returns no piece that begins with a letter stands right after a control
\* word.
C8_Concatenate ==
  /\ (Adding /\ pc = "returned") => result.value = Joined(arg[1], arg[2], 1)
  /\ (C5_Case /\ pc = "returned") =>
       Separated(result.value, Pieces(arg[1], arg[2], 1, <<>>, FALSE), 1)

\* a space put in after a control word of one letter
C8_Witness ==
  /\ Adding /\ pc = "returned"
  /\ arg = << <<"\\", "a">>, <<"a">> >>
  /\ result.value = <<"\\", "a", " ", "a">>

-----------------------------------------------------------------------------
(* C9 *)

C9_Post ==
  (Scanning /\ pc = "post") =>
    /\ pc' = "returned"
    /\ level' # "null" =>
         result'.value = << [kind |-> "mstyle", str |-> <<>>, kids |-> mml,
                             level |-> level'] >>
    /\ (level' = "null" /\ Len(mml) > 1) =>
         result'.value = << [kind |-> "mrow", str |-> <<>>, kids |-> mml,
                             level |-> "null"] >>
    /\ (level' = "null" /\ Len(mml) <= 1) => result'.value = mml

\* C9: with a level (0 included) all the segments go into one mstyle node of
\* that level; without one, two or more segments go into one mrow in their
\* order, and at most one segment is returned as it is; the returned list
\* never holds more than one element.
C9_Wrapping ==
  /\ [][C9_Post]_vars
  /\ []((Scanning /\ pc = "returned") => Len(result.value) <= 1)

\* several segments returned under level 0
C9_Witness ==
  /\ Scanning /\ pc = "returned" /\ level = "0" /\ Len(mml) >= 2
  /\ result.value[1].kind = "mstyle"

-----------------------------------------------------------------------------
(* C10 *)

Converting == fn = "dimen2em" /\ pc \in {"returned", "thrown"}

\* the ratio of a unit to the em
EmsPer(u) ==
  IF u = <<"e", "m">> THEN <<1, 1>>
  ELSE IF u = <<"e", "x">> THEN <<43, 100>>
  ELSE IF u = <<"p", "t">> THEN <<1, 10>>
  ELSE IF u = <<"p", "c">> THEN <<12, 10>>
  ELSE IF u = <<"p", "x">> THEN <<1, 10>>
  ELSE IF u = <<"i", "n">> THEN <<72, 10>>
  ELSE IF u = <<"c", "m">> THEN <<7200, 2540>>
  ELSE IF u = <<"m", "m">> THEN <<720, 2540>>
  ELSE <<1, 18>>

RecognizedUnits ==
  { <<"e", "m">>, <<"e", "x">>, <<"p", "t">>, <<"p", "c">>, <<"p", "x">>,
    <<"i", "n">>, <<"c", "m">>, <<"m", "m">>, <<"m", "u">> }

\* the texts 1u, 2u, 12u, ... of a whole numeral and a unit, with its value
WholeNumeral(t, n, u) ==
  /\ u \in RecognizedUnits
  /\ \/ n = 1 /\ t = <<"1">> \o u
     \/ n = 2 /\ t = <<"2">> \o u
     \/ n = 12 /\ t = <<"1", "2">> \o u
     \/ n = 21 /\ t = <<"2", "1">> \o u

\* the text, but for the whitespace after it, ends in no recognized unit
UnknownUnit(t) ==
  LET e == CHOOSE j \in 0..Len(t) :
             /\ j = 0 \/ ~IsSpace(t[j])
             /\ \A h \in (j + 1)..Len(t) : IsSpace(t[h])
  IN  e < 2 \/ SubSeq(t, e - 1, e) \notin RecognizedUnits

C10_Numeral ==
  Converting =>
    \A n \in {1, 2, 12, 21} : \A u \in RecognizedUnits :
      WholeNumeral(arg[1], n, u) =>
        SameNumber(result.value, <<n * EmsPer(u)[1], EmsPer(u)[2]>>)

C10_Default ==
  Converting =>
    \A u \in RecognizedUnits :
      arg[1] = u => SameNumber(result.value, EmsPer(u))

C10_Unknown ==
  Converting =>
    /\ result.error = ""
    /\ UnknownUnit(arg[1]) => SameNumber(result.value, <<0, 1>>)

C10_Examples ==
  Converting =>
    /\ arg[1] = <<"2", "p", "t">> => SameNumber(result.value, <<2, 10>>)
    /\ arg[1] = <<"1", "i", "n">> => SameNumber(result.value, <<72, 10>>)
    /\ arg[1] = <<"3", "x", "y", "z">> => SameNumber(result.value, <<0, 1>>)

\* C10 as claimed: dimen2em returns the numeral times the unit's ratio; a
\* text that is only a recognized unit converts as 1 of that unit; a text
\* with an unrecognized unit gives 0; it never raises; and 2pt is 0.2, 1in is
\* 7.2, 3xyz is 0.
C10_Original == C10_Numeral /\ C10_Default /\ C10_Unknown /\ C10_Examples

\* What holds of C10: all of it but the default of 1, which no text reaches.
C10_ApartFromDefault == C10_Numeral /\ C10_Unknown /\ C10_Examples

\* a text that is only a unit gives 0
C10_UnitOnlyIsZero ==
  Converting =>
    \A u \in RecognizedUnits :
      arg[1] = u => SameNumber(result.value, <<0, 1>>)

-----------------------------------------------------------------------------
(* C11 *)

Matching == fn = "matchDimen" /\ pc \in {"returned", "thrown"}

\* s is a numeral: an optional sign, then digits with at most one decimal
\* point or comma among them, before them or after them, and at least one digit
IsNumeral(s) ==
  LET a == IF s # <<>> /\ s[1] \in {"-", "+"} THEN 2 ELSE 1
  IN  /\ \A j \in a..Len(s) : s[j] \in Digits \cup {".", ","}
      /\ \E j \in a..Len(s) : s[j] \in Digits
      /\ \A j, h \in a..Len(s) : (s[j] \notin Digits /\ s[h] \notin Digits) => j = h

\* the numeral s with a point for its comma
Anglosaxon(s) == [j \in 1..Len(s) |-> IF s[j] = "," THEN "." ELSE s[j]]

AllSpace(t, from, to) == \A j \in from..to : IsSpace(t[j])

\* the literal of t: whitespace up to a, a numeral up to b, whitespace up to
\* c, and a recognized unit at c + 1 and c + 2
Literal(t, a, b, c) ==
  /\ a < b /\ b <= c /\ c + 2 <= Len(t)
  /\ SubSeq(t, c + 1, c + 2) \in RecognizedUnits
  /\ AllSpace(t, 1, a)
  /\ AllSpace(t, b + 1, c)
  /\ IsNumeral(SubSeq(t, a + 1, b))

Absent == [value |-> <<>>, unit |-> <<>>, length |-> 0]

\* allowTrailing = false
C11_Whole ==
  (Matching /\ arg[2] = FALSE) =>
    LET t == arg[1]
        r == result.value
    IN  /\ r # Absent =>
             \E a \in 0..Len(t) : \E b \in (a + 1)..Len(t) : \E c \in b..Len(t) :
               Literal(t, a, b, c) /\ AllSpace(t, c + 3, Len(t))
        /\ \A a \in 0..Len(t) : \A b \in (a + 1)..Len(t) : \A c \in b..Len(t) :
             (Literal(t, a, b, c) /\ AllSpace(t, c + 3, Len(t))) =>
               r = [value |-> Anglosaxon(SubSeq(t, a + 1, b)),
                    unit |-> SubSeq(t, c + 1, c + 2),
                    length |-> Len(t)]

\* allowTrailing = true
C11_Trailing ==
  (Matching /\ arg[2] = TRUE) =>
    LET t == arg[1]
        r == result.value
    IN  /\ r # Absent =>
             \E a \in 0..Len(t) : \E b \in (a + 1)..Len(t) : \E c \in b..Len(t) :
               Literal(t, a, b, c)
        /\ \A a \in 0..Len(t) : \A b \in (a + 1)..Len(t) : \A c \in b..Len(t) :
             Literal(t, a, b, c) =>
               /\ r.value = Anglosaxon(SubSeq(t, a + 1, b))
               /\ r.unit = SubSeq(t, c + 1, c + 2)
               /\ r.length = IF c + 3 <= Len(t) /\ t[c + 3] = " "
                             THEN c + 3 ELSE c + 2

\* C11: matchDimen never raises and returns a full result or (null, null, 0).
\* Without allowTrailing it matches exactly when the text is whitespace, a
\* numeral, whitespace, a recognized unit and whitespace (each whitespace
\* possibly empty); the numeral is returned with a point for its comma, the
\* unit as it stands, and the length is that of the text.  With allowTrailing
\* it matches exactly when the text starts that way, anything may follow the
\* unit, and the length is that of the literal plus one when a space follows.
C11_MatchDimen ==
  /\ Matching => (pc = "returned" /\ result.error = "")
  /\ C11_Whole
  /\ C11_Trailing

\* a text with a decimal comma matched whole
C11_Witness ==
  /\ Matching /\ arg[2] = FALSE
  /\ arg[1] = <<",", "2", "p", "t", " ">>
  /\ result.value = [value |-> <<".", "2">>, unit |-> <<"p", "t">>,
                     length |-> 5]

-----------------------------------------------------------------------------
(* C12 *)

\* the loop is about to read an escape followed by the character c
ReadsEscaped(c) == Reads("\\") /\ charAt(text, i + 1) = c

\* the step leaves the island as it is: no mode change, nothing pushed
IslandStays == match' = match /\ mml' = mml /\ k' = k /\ text' = text

C12_Step ==
  /\ (Reads("$") /\ match = "$" /\ braces > 0) => (IslandStays /\ braces' = braces)
  /\ (ReadsEscaped(")") /\ match = ")" /\ braces > 0)
       => (IslandStays /\ braces' = braces)
  /\ (Reads("{") /\ match \in {"$", ")"}) => (IslandStays /\ braces' = braces + 1)
  /\ (Reads("}") /\ match \in {"$", ")"})
       => (IslandStays /\ braces' = IF braces > 0 THEN braces - 1 ELSE 0)
  /\ (Reads("$") /\ match = ")") => (IslandStays /\ braces' = braces)
  /\ (ReadsEscaped("(") /\ match = "$") => (IslandStays /\ braces' = braces)

C12_Example ==
  /\ Scanned =>
       /\ arg = <<"$", "{", "$", "}", "$">>
            => mml = << NotationSeg(<<"{", "$", "}">>) >>
       /\ arg = <<"\\", "(", "}", "$", "\\", ")">>
            => mml = << NotationSeg(<<"}", "$">>) >>
       /\ arg = <<"$", "\\", "(", "$">>
            => mml = << NotationSeg(<<"\\", "(">>) >>
  /\ (Scanning /\ pc \in {"post", "returned", "thrown"}
        /\ arg = <<"\\", "(", "{", "\\", ")", "}">>) => pc = "thrown"

\* C12: in DollarMath and ParenMath the island's own closer read at a brace
\* depth above 0 closes nothing and changes nothing; a brace only raises or
\* lowers the depth (a closing brace at depth 0 does nothing) and never ends
\* the island; a dollar in ParenMath and an escaped ( in DollarMath open
\* nothing.  "${$}$" is one island of content "{$}", closed by its last dollar.
C12_NestedGroups == [][C12_Step]_vars /\ []C12_Example

\* "${$}$" scanned: the dollar inside the braces did not close the island
C12_Witness ==
  /\ Scanning /\ pc = "returned"
  /\ arg = <<"$", "{", "$", "}", "$">>
  /\ mml = << NotationSeg(<<"{", "$", "}">>) >>

-----------------------------------------------------------------------------
(* C13 *)

\* t holds, from the escape at j (counted from 1) up to the opening brace at
\* e, the control word ref or eqref and then whitespace only
RefOpener(t, j, e) ==
  /\ j >= 1 /\ e <= Len(t)
  /\ t[j] = "\\" /\ t[e] = "{"
  /\ \E w \in { <<"r", "e", "f">>, <<"e", "q", "r", "e", "f">> } :
       /\ j + Len(w) < e
       /\ SubSeq(t, j + 1, j + Len(w)) = w
       /\ \A h \in (j + Len(w) + 1)..(e - 1) : IsSpace(t[h])

\* the loop is about to read the escape of a reference
ReadsRef == Reads("\\") /\ \E e \in 1..Len(text) : RefOpener(text, i + 1, e)

C13_Step ==
  /\ (ReadsRef /\ match = "") =>
       /\ match' = "}" /\ braces' = 0 /\ text' = text
       /\ k' = i
       /\ RefOpener(text, i + 1, i')
       /\ mml' = IF k < i THEN Append(mml, TextSeg(SubSeq(text, k + 1, i)))
                 ELSE mml
  /\ (ReadsRef /\ match # "") => IslandStays
  /\ match = "}" =>
       IF Reads("}") /\ braces = 0 THEN
         /\ match' = "" /\ braces' = 0 /\ k' = i + 1
         /\ \E e \in 1..(i + 1) : RefOpener(text, k + 1, e)
         /\ mml' = Append(mml, NotationSeg(SubSeq(text, k + 1, i + 1)))
       ELSE
         /\ pc' = "loop" => IslandStays
         /\ Reads("{") => braces' = braces + 1
         /\ Reads("}") => braces' = braces - 1
         /\ ~(Reads("{") \/ Reads("}")) => braces' = braces

C13_Example ==
  Scanned =>
    /\ arg = <<"a", "\\", "e", "q", "r", "e", "f", " ", "{", "a", "}", "b">>
         => mml = << TextSeg(<<"a">>),
                     NotationSeg(<<"\\", "e", "q", "r", "e", "f", " ", "{", "a", "}">>),
                     TextSeg(<<"b">>) >>
    /\ arg = <<"\\", "r", "e", "f", "{", "{", "a", "}", "}", "a">>
         => mml = << NotationSeg(<<"\\", "r", "e", "f", "{", "{", "a", "}", "}">>),
                     TextSeg(<<"a">>) >>

\* C13: in Plain mode an escape before ref or eqref, whitespace and an opening
\* brace pushes the pending non-empty text and opens RefBraceMath at depth 0,
\* the cursor after the opening brace; only a closing brace read at depth 0
\* closes it (braces inside raise and lower the depth), the substring from the
\* escape through that closing brace goes to the TexParser, and the mode is
\* Plain again.  The same control word inside an open island changes nothing.
C13_RefIsland == [][C13_Step]_vars /\ []C13_Example

\* a reference with nested braces scanned, followed by text
C13_Witness ==
  /\ Scanning /\ pc = "returned"
  /\ arg = <<"\\", "r", "e", "f", "{", "{", "a", "}", "}", "a">>
  /\ Len(mml) = 2 /\ mml[1].kind = "TeXAtom" /\ Len(mml[1].str) = 9

-----------------------------------------------------------------------------
(* C14 *)

C14_Step ==
  /\ (ReadsEscaped("(") /\ match = "") =>
       /\ match' = ")" /\ braces' = 0 /\ text' = text
       /\ k' = i + 2 /\ i' = i + 2
       /\ mml' = IF k < i THEN Append(mml, TextSeg(SubSeq(text, k + 1, i)))
                 ELSE mml
  /\ match = ")" =>
       IF ReadsEscaped(")") /\ braces = 0 THEN
         /\ match' = "" /\ braces' = 0 /\ text' = text
         /\ k >= 2 /\ SubSeq(text, k - 1, k) = <<"\\", "(">>
         /\ mml' = Append(mml, NotationSeg(SubSeq(text, k + 1, i)))
         /\ k' = i + 2 /\ i' = i + 2
       ELSE pc' = "loop" => IslandStays
  /\ (ReadsEscaped(")") /\ match = "") =>
       /\ match' = "" /\ text' = text /\ mml' = mml /\ k' = k /\ braces' = braces
       /\ i' = i + 2

C14_Example ==
  Scanned =>
    /\ arg = <<"\\", "(", "a", "\\", ")", "\\", ")">>
         => mml = << NotationSeg(<<"a">>), TextSeg(<<"\\", ")">>) >>
    /\ arg = <<"a", "\\", "(", "b", "\\", ")", "\\", "r", "e", "f", "{", "{", "}", "}",
               "$", "{", "$", "}", "$", " ">>
         => mml = << TextSeg(<<"a">>), NotationSeg(<<"b">>),
                     NotationSeg(<<"\\", "r", "e", "f", "{", "{", "}", "}">>),
                     NotationSeg(<<"{", "$", "}">>), TextSeg(<<" ">>) >>

\* C14: in Plain mode an escape before ( pushes the pending non-empty text,
\* the span before the escape, and opens ParenMath; the first escape before )
\* that is read at depth 0 closes it, the substring strictly between the two
\* markers goes to the TexParser and is pushed as one Notation segment, and
\* the mode is Plain again.  An escape before ) read in Plain mode changes
\* neither the mode nor the text.
C14_ParenIsland == [][C14_Step]_vars /\ []C14_Example

\* an island closed by its marker, and the same marker then read as text
C14_Witness ==
  /\ Scanning /\ pc = "returned"
  /\ arg = <<"\\", "(", "a", "\\", ")", "\\", ")">>
  /\ Len(mml) = 2 /\ mml[1] = NotationSeg(<<"a">>) /\ mml[2].kind = "mtext"

-----------------------------------------------------------------------------
(* C15 *)

C15_Depth == Scanning => (braces >= 0 /\ (match = "" => braces = 0))

C15_Step ==
  (Scanning /\ pc = "loop") =>
    /\ Reads("{") => braces' = IF match # "" THEN braces + 1 ELSE braces
    /\ Reads("}") => braces' = IF match # "" /\ braces > 0 THEN braces - 1
                               ELSE braces
    /\ ~(Reads("{") \/ Reads("}")) => braces' = braces
    /\ (match # "" /\ match' = "") => (braces = 0 /\ braces' = 0)

\* C15: the brace depth is never negative, and it is 0 whenever the mode is
\* Plain: an opening brace raises it only inside an island, a closing brace
\* lowers it only when it is above 0, braces read in Plain mode leave it as it
\* is, nothing else changes it, and every island is closed at depth 0.
C15_BraceDepth == [][C15_Step]_vars /\ []C15_Depth

\* back in Plain mode at depth 0 after an island that held braces
C15_Witness ==
  /\ Scanning /\ pc = "loop" /\ match = "" /\ braces = 0
  /\ Len(mml) >= 1 /\ mml[1].kind = "TeXAtom"
  /\ \E j \in 1..Len(mml[1].str) : mml[1].str[j] = "}"
  /\ i < Len(text) /\ charAt(text, i) = "{"

-----------------------------------------------------------------------------
(* C16 *)

\* the characters that remain after the cursor
Remaining(t, ii) == Len(t) - ii

C16_Step ==
  (Scanning /\ pc = "loop" /\ i < Len(text)) =>
    /\ pc' = "loop"
    /\ Remaining(text', i') < Remaining(text, i)
    /\ C3_AtEscape => (Len(text') = Len(text) - 1 /\ i' = i + 1)
    /\ (ReadsRef /\ match = "") => i' > i + 1

C16_Order == Scanning => (0 <= k /\ k <= i /\ Remaining(text, i) >= -1)

C16_Done == Scanning /\ pc \in {"returned", "thrown"}

\* C16: every iteration of the loop leaves fewer characters after the cursor
\* than it found (text length minus cursor), also when the literal-escape
\* branch steps the cursor back by one and deletes a character and when the
\* opener of a reference moves the cursor forward; the segment start never
\* passes the cursor; and every call ends: it returns or it throws.
C16_Terminates ==
  /\ [][C16_Step]_vars
  /\ []C16_Order
  /\ (Scanning ~> C16_Done)

\* a call that returned after a reference island and a removed escape
C16_Witness ==
  /\ C16_Done /\ pc = "returned"
  /\ Len(text) = Len(arg) - 1
  /\ Len(mml) = 2 /\ mml[1].kind = "TeXAtom"
  /\ Len(mml[1].str) >= 1 /\ Head(mml[1].str) = "\\"

-----------------------------------------------------------------------------
(* C17 *)

\* m2 is m, or m with one segment more at its end: a Notation segment or a
\* Text segment of a non-empty span, made of the text from the segment start
\* kk up to e
Pushed(m, m2, t, kk, e) ==
  \/ m2 = Append(m, NotationSeg(SubSeq(t, kk + 1, e)))
  \/ e > kk /\ m2 = Append(m, TextSeg(SubSeq(t, kk + 1, e)))

C17_Step ==
  /\ (Scanning /\ pc = "loop") =>
       /\ k' >= k
       /\ mml' = mml \/ \E e \in k..Len(text) : Pushed(mml, mml', text, k, e) /\ k' >= e
  /\ (Scanning /\ pc = "tail") =>
       mml' = IF k < Len(text)
              THEN Append(mml, TextSeg(SubSeq(text, k + 1, Len(text))))
              ELSE mml

C17_Segments ==
  /\ Scanning => \A n \in 1..Len(mml) :
                   /\ mml[n].kind \in {"mtext", "TeXAtom"}
                   /\ mml[n].kind = "mtext" => mml[n].str # <<>>
  /\ Scanned =>
       /\ arg = <<"$", "a", "$", "$", "b", "$">>
            => mml = << NotationSeg(<<"a">>), NotationSeg(<<"b">>) >>
       /\ arg = <<>> => mml = <<>>
       /\ arg = <<"$", "$">> => mml = << NotationSeg(<<>>) >>

\* C17: segments are pushed at the end of the list, each made of the text
\* from the segment start on, and the segment start only moves forward, so
\* they stand in source order; a Text segment is pushed only for a non-empty
\* span, in the loop and after it, so no Text segment is empty: "$a$$b$"
\* gives two Notation segments and nothing between, the empty text gives no
\* segment, and "$$" gives one Notation segment of the empty string.
C17_SegmentOrder == [][C17_Step]_vars /\ []C17_Segments

\* "$a$$b$" scanned
C17_Witness ==
  /\ Scanning /\ pc = "returned"
  /\ arg = <<"$", "a", "$", "$", "b", "$">>
  /\ Len(mml) = 2 /\ mml[2] = NotationSeg(<<"b">>)

-----------------------------------------------------------------------------
(* C18 *)

Checking == fn = "checkEqnEnv" /\ pc \in {"returned", "thrown"}

C18_Call ==
  \A p \in Parsers :
    /\ (arg' = <<p>> /\ eqnCalls'[p] # eqnCalls[p]) =>
         /\ eqnenv'[p] = TRUE
         /\ \A q \in Parsers \ {p} : eqnenv'[q] = eqnenv[q]
         /\ IF eqnenv[p]
            THEN pc' = "thrown"
                 /\ result' = [error |-> "ErroneousNestingEq", value |-> <<>>]
            ELSE pc' = "returned" /\ result'.error = ""
    /\ eqnenv[p] => eqnenv'[p]

C18_FirstOnly ==
  /\ \A p \in Parsers : eqnenv[p] = (eqnCalls[p] >= 1)
  /\ Checking => (pc = "returned") = (eqnCalls[arg[1]] = 1)

\* C18: checkEqnEnv called on a parser whose eqnenv flag is unset sets the
\* flag and returns; called on one whose flag is set it throws
\* ErroneousNestingEq and leaves the flag set; it touches no other parser's
\* flag and never clears one.  So of the calls made on a new parser exactly
\* the first returns and every later one throws.
C18_NestingGuard == [][C18_Call]_vars /\ []C18_FirstOnly

\* the third call on a parser has thrown, after a call on another parser
C18_Witness ==
  /\ Checking /\ pc = "thrown"
  /\ eqnCalls[arg[1]] = 3
  /\ \E q \in Parsers \ {arg[1]} : eqnCalls[q] = 1 /\ eqnenv[q]

====
